---- MODULE Spec2Model ----
(***************************************************************************)
(* PackageEngine (src/package_manager/package_handler.py): the manifest    *)
(* file packages.json, the pip package database, and the operations        *)
(* install_multiple / install_package (thread pool), uninstall_package and *)
(* update_package.                                                         *)
(*                                                                         *)
(* Specifiers and package names are sequences of one-character strings so  *)
(* that _get_base_name is computed by splitting, as the code does.         *)
(* File writes are assumed not to fail at the OS level (_save_packages     *)
(* never raises); a file that is open for writing by one thread and read   *)
(* by another is modelled (it is empty until the writer closes it).        *)
(***************************************************************************)
EXTENDS Integers, Sequences, FiniteSets, TLC

\* ------------------------------------------------------------------ bounds
MaxOps == 3        \* top-level operations (CLI commands) in one run
MaxLen == 3        \* longest specifier string handed to _get_base_name alone
MaxLines == 5      \* lines one installer process writes to its stdout
MaxWrites == 4     \* writes (stdout lines, stderr chunks) of one installer process
PipeCapacity == 2  \* chunks an OS pipe buffers before the writer blocks

\* ------------------------------------------------------- program constants
max_workers == 4
None == "None"
MARKER == "externally-managed-environment"
OVERRIDE == "--break-system-packages"

\* ------------------------------------------------------ strings as sequences
WS == {" "}

RECURSIVE FindFirst(_, _, _)
\* index of the first occurrence of character c in s at or after i, else 0
FindFirst(s, c, i) ==
    IF i > Len(s) THEN 0
    ELSE IF s[i] = c THEN i
    ELSE FindFirst(s, c, i + 1)

\* s.split(c)[0]
Split0(s, c) ==
    LET k == FindFirst(s, c, 1)
    IN  IF k = 0 THEN s ELSE SubSeq(s, 1, k - 1)

RECURSIVE LStrip(_)
LStrip(s) ==
    IF s # <<>> /\ Head(s) \in WS THEN LStrip(Tail(s)) ELSE s

RECURSIVE RStrip(_)
RStrip(s) ==
    IF s # <<>> /\ s[Len(s)] \in WS THEN RStrip(SubSeq(s, 1, Len(s) - 1)) ELSE s

\* s.strip()
Strip(s) == RStrip(LStrip(s))

\* sub in s
Contains(s, sub) ==
    \E i \in 1..(Len(s) - Len(sub) + 1) : SubSeq(s, i, i + Len(sub) - 1) = sub

\* an extraction that forgets the final strip()
get_base_name_nostrip(package_spec) ==
    LET name == Strip(Split0(Split0(Split0(package_spec, ";"), "["), "("))
    IN  Split0(Split0(Split0(name, "<"), ">"), "=")

\* PackageEngine._get_base_name
get_base_name(package_spec) ==
    LET name == Strip(Split0(Split0(Split0(package_spec, ";"), "["), "("))
    IN  Strip(Split0(Split0(Split0(name, "<"), ">"), "="))

\* ------------------------------------------------ the stubbed outside world
\* request lists of a single install_multiple from a fresh manifest (SpecPool)
PoolRequests ==
    { << <<"a">> >>,
      << <<"a">>, <<"c">> >>,
      << <<"a", "=", "=", "1">>, <<"a">> >>,
      << <<"b">> >> }

\* request lists and arguments of the commands of a session (Spec)
Requests == { << <<"a", "=", "=", "1">> >> }
Args == { <<"a", "=", "=", "1">>, <<"b">> }

\* info.requires_dist of the package index, per package name
RequiresDist(name) ==
    IF name = <<"a">>
      THEN << <<"b", ">", "=", "1">>,
              <<"c", ";", " ", "e", "x", "t", "r", "a", " ", "=", "=", " ", "x">> >>
    ELSE IF name = <<"b">> THEN << <<"c">> >>
    ELSE << >>

Names == { <<"a">>, <<"b">>, <<"c">> }
Versions == { "1.0", "2.0" }
LatestVersion == "2.0"
Stderrs == { MARKER, "boom" }

\* the version pip installs for a specifier: the pinned one, else the latest
PipTarget(spec) ==
    IF Contains(spec, <<"=", "=", "1">>) THEN "1.0" ELSE LatestVersion

Empty == [n \in {} |-> None]

cache_dir == ".pkgx_cache"
NoReason == [msg |-> "", stderr |-> ""]

\* a delete that drops the whole dict
DelAll(d, k) == [n \in {} |-> d[n]]

\* del d[k]
Del(d, k) == [n \in (DOMAIN d) \ {k} |-> d[n]]

\* d[k] = v
Put(d, k, v) == [n \in (DOMAIN d) \cup {k} |-> IF n = k THEN v ELSE d[n]]

VARIABLES
    packages_file,   \* packages.json: [valid, len, packages]
    installed,       \* pip's database: name -> version or None
    clock,           \* datetime.now()
    ops,             \* top-level operations started so far
    index_ok,        \* whether the package index answers during this operation
    phase,           \* "idle", or "pool" while install_multiple runs
    request,         \* package_specs of the running install_multiple
    queried,         \* names whose dependencies install_multiple asked the index for
    task,            \* one install_package call per member of all_packages
    successful,      \* install_multiple's list of specs whose future returned True
    failed,          \* install_multiple's list of failures
    last,            \* the last finished top-level operation and its outcome
    pre,             \* packages.json when that operation began
    pbar,            \* tqdm's counter n of the running install_package / update_package
    nlines,          \* lines read from the installer's stdout so far
    output,          \* the line process.stdout.readline() returned last
    process          \* the Popen object, its two pipes and the adapter's position

vars == <<packages_file, installed, clock, ops, index_ok, phase, request, queried, task,
          successful, failed, last, pre, pbar, nlines, output, process>>

\* no installer process has been started
NoProcess == [pc |-> "idle", state |-> "none", pending |-> "none", stdout |-> 0, stderr |-> 0,
              writes |-> 0, returncode |-> None]

\* the reader of the installer's output
io == <<pbar, nlines, output, process>>

pool == <<request, queried, task, successful, failed>>

\* the set install_multiple hands to the executor
all_packages == DOMAIN task

\* PackageEngine._load_packages: a file that does not parse loads as empty
load_packages == IF packages_file.valid THEN packages_file.packages ELSE Empty

\* the 'with open(..., "w")' of PackageEngine._save_packages truncates
save_open == [valid |-> FALSE, len |-> 0, packages |-> Empty]

\* json.dump + close of PackageEngine._save_packages: the bytes are written
\* from offset 0; a longer content written meanwhile through another handle
\* keeps its tail, which leaves a document that does not parse
save_write(file, data) ==
    IF Cardinality(DOMAIN data) >= file.len
      THEN [valid |-> TRUE, len |-> Cardinality(DOMAIN data), packages |-> data]
      ELSE [valid |-> FALSE, len |-> file.len, packages |-> Empty]

\* a marker test that takes every stderr for the externally-managed one
externally_managed_any(stderr) == TRUE

\* "externally-managed-environment" in stderr
externally_managed(stderr) == stderr = MARKER

\* a retry that forgets to append the flag
without_override(cmd) == cmd

\* cmd.append("--break-system-packages")
with_override(cmd) == [cmd EXCEPT !.flags = Append(@, OVERRIDE)]

\* a version check that accepts None
version_found_always(installed_version) == TRUE

\* the negation of 'if not installed_version' / 'if not new_version'
version_found(installed_version) == installed_version # None

\* PackageEngine._get_installed_version; show_ok = FALSE: "pip show" raised
get_installed_version(db, package_name, show_ok) ==
    IF show_ok THEN db[get_base_name(package_name)] ELSE None

RECURSIVE dependencies_loop(_, _, _)
\* the for loop of PackageEngine._get_dependencies over requires_dist
dependencies_loop(requires_dist, i, dependencies) ==
    IF i > Len(requires_dist) THEN dependencies
    ELSE LET req == requires_dist[i]
             dep_name == get_base_name(req)
         IN  IF /\ req # <<>>
                /\ ~Contains(req, <<"e", "x", "t", "r", "a", " ", "=", "=">>)
                /\ dep_name # <<>>
                /\ \A j \in 1..Len(dependencies) : dependencies[j] # dep_name
               THEN dependencies_loop(requires_dist, i + 1, Append(dependencies, dep_name))
               ELSE dependencies_loop(requires_dist, i + 1, dependencies)

\* PackageEngine._get_dependencies; ok = FALSE: the request failed
get_dependencies(package_name, ok) ==
    IF ok THEN dependencies_loop(RequiresDist(package_name), 1, <<>>) ELSE <<>>

RECURSIVE expand(_, _, _, _)
\* the first loop of PackageEngine.install_multiple: [all, queried]
expand(package_specs, i, ok, acc) ==
    IF i > Len(package_specs) THEN acc
    ELSE LET spec == package_specs[i]
             name == get_base_name(spec)
             deps == get_dependencies(name, ok)
         IN  expand(package_specs, i + 1, ok,
                    [all |-> acc.all \cup {spec} \cup {deps[j] : j \in 1..Len(deps)},
                     queried |-> acc.queried \cup {name}])

Init ==
    /\ packages_file = [valid |-> TRUE, len |-> 0, packages |-> Empty]
    /\ installed = [n \in Names |-> None]
    /\ clock = 0
    /\ ops = 0
    /\ index_ok = TRUE
    /\ phase = "idle"
    /\ request = <<>>
    /\ queried = {}
    /\ task = Empty
    /\ successful = <<>>
    /\ failed = <<>>
    /\ last = [op |-> "init"]
    /\ pre = packages_file
    /\ pbar = 0
    /\ nlines = 0
    /\ output = <<>>
    /\ process = NoProcess

\* ------------------------------------------------------- install_multiple
NewTask == [pc |-> "queued", cmds |-> <<>>, exits |-> <<>>, stderr |-> "", version |-> None,
            data |-> Empty, result |-> FALSE, reason |-> NoReason]

\* PackageEngine.install_multiple up to executor.submit
submit(package_specs, ok) ==
    LET e == expand(package_specs, 1, ok, [all |-> {}, queried |-> {}])
    IN  /\ phase = "idle"
        /\ ops < MaxOps
        /\ ops' = ops + 1
        /\ index_ok' = ok
        /\ last' = [op |-> "install_multiple"]
        /\ phase' = "pool"
        /\ request' = package_specs
        /\ queried' = e.queried
        /\ task' = [spec \in e.all |-> NewTask]
        /\ successful' = <<>>
        /\ failed' = <<>>
        /\ pre' = packages_file
        /\ UNCHANGED <<io, packages_file, installed, clock>>

InstallMultiple ==
    \E package_specs \in Requests, ok \in BOOLEAN : submit(package_specs, ok)

\* the first command on a fresh manifest is an install of several packages
InstallPool ==
    /\ last.op = "init"
    /\ \E package_specs \in PoolRequests, ok \in BOOLEAN : submit(package_specs, ok)

\* a pool that counts only the tasks waiting in the override retry
active_retrying == { t \in all_packages : task[t].pc = "retry" }

\* tasks a worker thread is executing
active == { t \in all_packages : task[t].pc \notin {"queued", "done", "collected"} }

\* a pool thread takes the task and install_package starts pip (Popen)
Start(t) ==
    /\ phase = "pool"
    /\ task[t].pc = "queued"
    /\ Cardinality(active) < max_workers
    /\ task' = [task EXCEPT ![t].pc = "running",
                            ![t].cmds = << [argv |-> <<"pip", "install", "--user", "--cache-dir", cache_dir>>,
                                            pkg |-> t, flags |-> <<>>] >>]
    /\ UNCHANGED <<io, packages_file, installed, clock, ops, index_ok, phase,
                   request, queried, successful, failed, last, pre>>

\* install_package after the readline loop: the process has exited
Exit(t, returncode, stderr) ==
    /\ phase = "pool"
    /\ task[t].pc = "running"
    /\ installed' = IF returncode = 0
                      THEN [installed EXCEPT ![get_base_name(t)] = PipTarget(t)]
                      ELSE installed
    /\ task' = [task EXCEPT
                  ![t].exits = Append(@, returncode),
                  ![t].stderr = IF returncode # 0 THEN stderr ELSE @,
                  ![t].pc = IF returncode = 0 THEN "version"
                            ELSE IF externally_managed(stderr) THEN "retry" ELSE "done",
                  ![t].reason = IF returncode # 0 /\ ~externally_managed(stderr)
                                  THEN [msg |-> "Installation failed", stderr |-> stderr]
                                  ELSE @]
    /\ UNCHANGED <<io, packages_file, clock, ops, index_ok, phase, request, queried,
                   successful, failed, last, pre>>

\* install_package: cmd.append(override); subprocess.check_call(cmd)
Retry(t, retrycode) ==
    /\ phase = "pool"
    /\ task[t].pc = "retry"
    /\ installed' = IF retrycode = 0
                      THEN [installed EXCEPT ![get_base_name(t)] = PipTarget(t)]
                      ELSE installed
    /\ task' = [task EXCEPT
                  ![t].cmds = Append(@, with_override(@[1])),
                  ![t].exits = Append(@, retrycode),
                  ![t].pc = IF retrycode = 0 THEN "version" ELSE "done",
                  ![t].reason = IF retrycode # 0
                                  THEN [msg |-> "CalledProcessError", stderr |-> ""]
                                  ELSE @]
    /\ UNCHANGED <<io, packages_file, clock, ops, index_ok, phase, request, queried,
                   successful, failed, last, pre>>

\* install_package: installed_version = self._get_installed_version(base_name)
Version(t, show_ok) ==
    LET installed_version == get_installed_version(installed, get_base_name(t), show_ok)
    IN  /\ phase = "pool"
        /\ task[t].pc = "version"
        /\ task' = [task EXCEPT
                      ![t].version = installed_version,
                      ![t].pc = IF version_found(installed_version) THEN "load" ELSE "done",
                      ![t].reason = IF ~version_found(installed_version)
                                      THEN [msg |-> "Could not determine version", stderr |-> ""]
                                      ELSE @]
        /\ UNCHANGED <<io, packages_file, installed, clock, ops, index_ok, phase,
                       request, queried, successful, failed, last, pre>>

\* a digest lookup that hands back an error text when the index fails
check_package_security_err(package_name, ok) == IF ok THEN "sha256" ELSE "error"

\* PackageEngine._check_package_security, for the stubbed index
check_package_security(package_name, ok) == IF ok THEN "sha256" ELSE None

\* an install that keys the record by the raw specifier
LoadRawKey(t) ==
    /\ phase = "pool"
    /\ task[t].pc = "load"
    /\ task' = [task EXCEPT
                  ![t].data = Put(load_packages, t,
                                  [version |-> task[t].version,
                                   install_date |-> clock,
                                   security_hash |->
                                       check_package_security(get_base_name(t), index_ok)]),
                  ![t].pc = "open"]
    /\ clock' = clock + 1
    /\ UNCHANGED <<io, packages_file, installed, ops, index_ok, phase, request, queried,
                   successful, failed, last, pre>>

\* install_package: data = self._load_packages(); data["packages"][base_name] = {...}
Load(t) ==
    /\ phase = "pool"
    /\ task[t].pc = "load"
    /\ task' = [task EXCEPT
                  ![t].data = Put(load_packages, get_base_name(t),
                                  [version |-> task[t].version,
                                   install_date |-> clock,
                                   security_hash |->
                                       check_package_security(get_base_name(t), index_ok)]),
                  ![t].pc = "open"]
    /\ clock' = clock + 1
    /\ UNCHANGED <<io, packages_file, installed, ops, index_ok, phase, request, queried,
                   successful, failed, last, pre>>

\* install_package -> _save_packages: open(self.packages_file, 'w')
Open(t) ==
    /\ phase = "pool"
    /\ task[t].pc = "open"
    /\ packages_file' = save_open
    /\ task' = [task EXCEPT ![t].pc = "write"]
    /\ UNCHANGED <<io, installed, clock, ops, index_ok, phase, request, queried,
                   successful, failed, last, pre>>

\* install_package -> _save_packages: json.dump and close; return True
Write(t) ==
    /\ phase = "pool"
    /\ task[t].pc = "write"
    /\ packages_file' = save_write(packages_file, task[t].data)
    /\ task' = [task EXCEPT ![t].pc = "done", ![t].result = TRUE, ![t].data = Empty]
    /\ UNCHANGED <<io, installed, clock, ops, index_ok, phase, request, queried,
                   successful, failed, last, pre>>

\* install_multiple: one iteration of the as_completed loop.  future.result()
\* cannot raise, install_package catches every Exception and returns False.
Collect(t) ==
    /\ phase = "pool"
    /\ task[t].pc = "done"
    /\ task' = [task EXCEPT ![t].pc = "collected"]
    /\ successful' = IF task[t].result THEN Append(successful, t) ELSE successful
    /\ failed' = IF task[t].result THEN failed
                 ELSE Append(failed, [spec |-> t, reason |-> NoReason])
    /\ UNCHANGED <<io, packages_file, installed, clock, ops, index_ok, phase,
                   request, queried, last, pre>>

\* a join that gives up as soon as one failure has been collected
all_done_or_failed ==
    \/ \A t \in all_packages : task[t].pc = "collected"
    \/ failed # <<>>

\* the as_completed loop has handed out every future
all_done == \A t \in all_packages : task[t].pc = "collected"

\* install_multiple after the as_completed loop: return, or raise if failed.
\* (The log loop over successful only reads pip's database.)
Finish ==
    /\ phase = "pool"
    /\ all_done
    /\ phase' = "idle"
    /\ last' = [op |-> "install_multiple", request |-> request, queried |-> queried,
                task |-> task, successful |-> successful,
                raised |-> failed # <<>>, message |-> failed]
    /\ request' = <<>>
    /\ queried' = {}
    /\ task' = Empty
    /\ successful' = <<>>
    /\ failed' = <<>>
    /\ UNCHANGED <<io, packages_file, installed, clock, ops, index_ok, pre>>

Worker ==
    \E t \in all_packages :
        \/ Start(t)
        \/ \E returncode \in {0, 1}, stderr \in Stderrs : Exit(t, returncode, stderr)
        \/ \E retrycode \in {0, 1} : Retry(t, retrycode)
        \/ \E show_ok \in BOOLEAN : Version(t, show_ok)
        \/ Load(t)
        \/ Open(t)
        \/ Write(t)
        \/ Collect(t)

\* ------------------------------------------------------ uninstall_package
\* PackageEngine.uninstall_package
uninstall_package(package_name, returncode, stderr, retrycode) ==
    LET base_name == get_base_name(package_name)
        cmd == [argv |-> <<"pip", "uninstall", "-y">>, pkg |-> base_name, flags |-> <<>>]
        retry == returncode # 0 /\ externally_managed(stderr)
        cmd2 == with_override(cmd)
        ok == returncode = 0 \/ (retry /\ retrycode = 0)
        data == load_packages
    IN  /\ phase = "idle"
        /\ ops < MaxOps
        /\ ops' = ops + 1
        /\ pre' = packages_file
        /\ installed' = IF ok THEN [installed EXCEPT ![base_name] = None] ELSE installed
        /\ packages_file' =
             IF ok /\ base_name \in DOMAIN data
               THEN save_write(save_open, Del(data, base_name))
               ELSE packages_file
        /\ last' = [op |-> "uninstall", arg |-> package_name,
                    cmds |-> IF retry THEN <<cmd, cmd2>> ELSE <<cmd>>,
                    exits |-> IF retry THEN <<returncode, retrycode>> ELSE <<returncode>>,
                    stderr |-> IF returncode # 0 THEN stderr ELSE "",
                    raised |-> ~ok]
        /\ UNCHANGED <<io, clock, index_ok, phase, pool>>

Uninstall ==
    \E package_name \in Args, returncode \in {0, 1}, stderr \in Stderrs, retrycode \in {0, 1} :
        /\ (~(returncode # 0 /\ stderr = MARKER) => retrycode = 0)
        /\ uninstall_package(package_name, returncode, stderr, retrycode)

\* --------------------------------------------------------- update_package
\* a report that never recognises an unchanged version
update_report_changed(current_version, new_version) == "updated"

\* update_package: the message logged once the new version is known
update_report(current_version, new_version) ==
    IF current_version = new_version THEN "already at the latest version" ELSE "updated"

\* PackageEngine.update_package
update_package(package_name, ok, show1, returncode, stderr, retrycode, show2) ==
    LET base_name == get_base_name(package_name)
        current_version == get_installed_version(installed, base_name, show1)
        cmd == [argv |-> <<"pip", "install", "--upgrade", "--user", "--cache-dir", cache_dir>>,
                pkg |-> base_name, flags |-> <<>>]
        retry == returncode # 0 /\ externally_managed(stderr)
        cmd2 == with_override(cmd)
        pip_ok == returncode = 0 \/ (retry /\ retrycode = 0)
        db == IF pip_ok THEN [installed EXCEPT ![base_name] = LatestVersion] ELSE installed
        new_version == get_installed_version(db, base_name, show2)
        written == pip_ok /\ version_found(new_version)
        data == Put(load_packages, base_name,
                    [version |-> new_version,
                     update_date |-> clock,
                     security_hash |-> check_package_security(base_name, ok)])
    IN  /\ phase = "idle"
        /\ ops < MaxOps
        /\ ops' = ops + 1
        /\ index_ok' = ok
        /\ pre' = packages_file
        /\ installed' = db
        /\ packages_file' = IF written THEN save_write(save_open, data) ELSE packages_file
        /\ clock' = IF written THEN clock + 1 ELSE clock
        /\ last' = [op |-> "update", arg |-> package_name,
                    cmds |-> IF retry THEN <<cmd, cmd2>> ELSE <<cmd>>,
                    exits |-> IF retry THEN <<returncode, retrycode>> ELSE <<returncode>>,
                    stderr |-> IF returncode # 0 THEN stderr ELSE "",
                    version |-> IF pip_ok THEN new_version ELSE None,
                    current |-> current_version,
                    report |-> IF ~written THEN ""
                               ELSE update_report(current_version, new_version),
                    raised |-> ~written]
        /\ UNCHANGED <<io, phase, pool>>

Update ==
    \E package_name \in Args, ok \in BOOLEAN, show1 \in BOOLEAN, returncode \in {0, 1},
       stderr \in Stderrs, retrycode \in {0, 1}, show2 \in BOOLEAN :
        /\ (~(returncode # 0 /\ stderr = MARKER) => retrycode = 0)
        /\ update_package(package_name, ok, show1, returncode, stderr, retrycode, show2)

\* ----------------------------------------------------------- list_packages
\* PackageEngine._get_latest_version, for the stubbed index
get_latest_version(package_name, ok) == IF ok THEN LatestVersion ELSE None

\* the order of packaging.version.parse on the versions of the stub
version_key(v) == IF v = "1.0" THEN 1 ELSE 2

\* the constraints list _normalize_package_data builds for a manifest key
constraints_of(name, base_name) ==
    IF ~Contains(name, <<"=", "=">>) /\ \E i \in 1..Len(name) : name[i] \in {"<", ">", "!", "=", "~"}
      THEN << Strip(SubSeq(name, Len(base_name) + 1, Len(name))) >>
      ELSE << >>

\* PackageEngine._normalize_package_data; info["install_date"] raises
\* KeyError for a record that has no install_date
normalize_package_data(data) ==
    IF \E name \in DOMAIN data : "install_date" \notin DOMAIN data[name]
      THEN [raised |-> TRUE, packages |-> Empty]
      ELSE [raised |-> FALSE,
            packages |->
              [base_name \in { get_base_name(name) : name \in DOMAIN data } |->
                 LET name == CHOOSE k \in DOMAIN data : get_base_name(k) = base_name
                 IN  [version |-> data[name].version,
                      install_date |-> data[name].install_date,
                      security_hash |-> data[name].security_hash,
                      constraints |-> constraints_of(name, base_name)]]]

\* the header line list_packages prints for one entry: the status icon
\* (by the legend) and whether the "Latest:" line follows
list_entry(name, ok, show_ok) ==
    LET current_version == get_installed_version(installed, name, show_ok)
        latest_version == get_latest_version(name, ok)
    IN  IF current_version # None
          THEN [status |-> IF latest_version # None
                              /\ version_key(current_version) >= version_key(latest_version)
                             THEN "up to date" ELSE "update available",
                current |-> current_version,
                latest |-> latest_version,
                latest_line |-> latest_version # None
                                /\ version_key(current_version) < version_key(latest_version)]
          ELSE [status |-> "not installed", current |-> None, latest |-> None,
                latest_line |-> FALSE]

\* PackageEngine.list_packages; shown: the names "pip show" answers for.
\* Nothing inside the per-entry try block raises for the versions of the stub.
list_packages(ok, shown) ==
    LET data == normalize_package_data(load_packages)
    IN  /\ phase = "idle"
        /\ ops < MaxOps
        /\ ops' = ops + 1
        /\ index_ok' = ok
        /\ pre' = packages_file
        /\ last' = [op |-> "list", raised |-> data.raised,
                    report |-> [name \in DOMAIN data.packages |->
                                  list_entry(name, ok, name \in shown)]]
        /\ UNCHANGED <<io, packages_file, installed, clock, phase, pool>>

List ==
    \E ok \in BOOLEAN, shown \in SUBSET (DOMAIN load_packages) : list_packages(ok, shown)

Next ==
    \/ InstallMultiple
    \/ Worker
    \/ Finish
    \/ Uninstall
    \/ Update
    \/ List

Spec == Init /\ [][Next]_vars

NextPool ==
    \/ InstallPool
    \/ Worker
    \/ Finish

SpecPool == Init /\ [][NextPool]_vars

\* ------------------------------ the worker pool under more items than workers
\* a request whose install set has more items than the pool has workers
WorkersRequest ==
    << <<"a">>, <<"a", "=", "=", "1">>, <<"c">>, <<"b", "=", "=", "1">> >>

\* the install set of WorkersRequest with the index up
WorkersItems == expand(WorkersRequest, 1, TRUE, [all |-> {}, queried |-> {}]).all

InstallWorkers ==
    /\ last.op = "init"
    /\ \E ok \in BOOLEAN : submit(WorkersRequest, ok)

\* a pool thread takes a queued future
StartWorker == \E t \in all_packages : Start(t)

\* the installer of a running task exits with an error that is not retried
ExitWorker == \E t \in all_packages : Exit(t, 1, "boom")

\* the as_completed loop hands out a finished future
CollectWorker == \E t \in all_packages : Collect(t)

NextWorkers ==
    \/ InstallWorkers
    \/ StartWorker
    \/ ExitWorker
    \/ CollectWorker
    \/ Finish

\* idle pool threads take queued futures, installer processes terminate, and
\* the main thread runs the as_completed loop
SpecWorkers ==
    /\ Init
    /\ [][NextWorkers]_vars
    /\ \A t \in WorkersItems :
          /\ WF_vars(t \in all_packages /\ Start(t))
          /\ WF_vars(t \in all_packages /\ Exit(t, 1, "boom"))
    /\ WF_vars(CollectWorker)
    /\ WF_vars(Finish)

\* ------------------------------------- the installer process and its pipes
\* what an installer process does next: write a line to stdout, write a
\* chunk to stderr, or exit
Pendings(writes) == IF writes < MaxWrites THEN {"stdout", "stderr", "exit"} ELSE {"exit"}

\* the adapter's outcome, separate from the manifest
rest == <<packages_file, installed, clock, ops, index_ok, phase, request, queried, task,
          successful, failed, last, pre, pbar, nlines, output>>

\* subprocess.Popen(cmd, stdout=subprocess.PIPE, stderr=subprocess.PIPE, text=True)
Popen ==
    /\ last.op = "init"
    /\ process.pc = "idle"
    /\ \E pending \in Pendings(0), returncode \in {0, 1} :
          process' = [pc |-> "readline", state |-> "running", pending |-> pending,
                      stdout |-> 0, stderr |-> 0, writes |-> 0, returncode |-> returncode]
    /\ UNCHANGED rest

\* the installer writes a line to stdout; it blocks while that pipe is full
WriteStdout ==
    /\ process.state = "running"
    /\ process.pending = "stdout"
    /\ process.stdout < PipeCapacity
    /\ \E pending \in Pendings(process.writes + 1) :
          process' = [process EXCEPT !.stdout = @ + 1, !.writes = @ + 1, !.pending = pending]
    /\ UNCHANGED rest

\* the installer writes a chunk to stderr; it blocks while that pipe is full
WriteStderr ==
    /\ process.state = "running"
    /\ process.pending = "stderr"
    /\ process.stderr < PipeCapacity
    /\ \E pending \in Pendings(process.writes + 1) :
          process' = [process EXCEPT !.stderr = @ + 1, !.writes = @ + 1, !.pending = pending]
    /\ UNCHANGED rest

\* the installer exits and its ends of the pipes are closed
ProcessExit ==
    /\ process.state = "running"
    /\ process.pending = "exit"
    /\ process' = [process EXCEPT !.state = "exited", !.pending = "none"]
    /\ UNCHANGED rest

\* output = process.stdout.readline(): a line, or '' at end of stream with
\* process.poll() not None, which leaves the loop; it blocks while the pipe is
\* empty and the installer still holds its end
Readline ==
    /\ process.pc = "readline"
    /\ \/ /\ process.stdout > 0
          /\ process' = [process EXCEPT !.stdout = @ - 1]
       \/ /\ process.stdout = 0
          /\ process.state = "exited"
          /\ process' = [process EXCEPT !.pc = "returncode"]
    /\ UNCHANGED rest

\* if process.returncode != 0: stderr = process.stderr.read()
ReadStderr ==
    /\ process.pc = "returncode"
    /\ process' = [process EXCEPT !.pc = "returned",
                                  !.stderr = IF process.returncode # 0 THEN 0 ELSE @]
    /\ UNCHANGED rest

NextPipes ==
    \/ Popen
    \/ WriteStdout
    \/ WriteStderr
    \/ ProcessExit
    \/ Readline
    \/ ReadStderr

\* the adapter's thread runs, and so does the installer whenever it is not
\* blocked on a full pipe
SpecPipes ==
    /\ Init
    /\ [][NextPipes]_vars
    /\ WF_vars(WriteStdout) /\ WF_vars(WriteStderr) /\ WF_vars(ProcessExit)
    /\ WF_vars(Readline) /\ WF_vars(ReadStderr)

\* ------------------------------------- the readline loop of install/update
\* lines pip writes, as words
Lines ==
    { <<"Collecting", "a">>, <<"Downloading", "a.whl">>, <<"Installing", "collected", "packages">>,
      <<"Successfully", "installed", "a">>, <<"Requirement", "already", "satisfied">>,
      <<"Collecting", "Downloading">> }

\* marker in output
has(line, marker) == \E i \in 1..Len(line) : line[i] = marker

\* the if/elif chain of the readline loop: the argument of pbar.update
progress_weight(line) ==
    IF has(line, "Collecting") THEN 20
    ELSE IF has(line, "Downloading") THEN 30
    ELSE IF has(line, "Installing") THEN 40
    ELSE IF has(line, "Successfully") THEN 10
    ELSE 0

\* one iteration of 'while True: output = process.stdout.readline()' with a line
ReadLine ==
    /\ last.op = "init"
    /\ nlines < MaxLines
    /\ \E line \in Lines :
          /\ output' = line
          /\ pbar' = pbar + progress_weight(line)
    /\ nlines' = nlines + 1
    /\ UNCHANGED process
    /\ UNCHANGED <<packages_file, installed, clock, ops, index_ok, phase,
                   request, queried, task, successful, failed, last, pre>>

NextProgress == ReadLine

SpecProgress == Init /\ [][NextProgress]_vars

\* ---------------------------------------------------- _get_base_name alone
\* the characters of a specifier: a name character, whitespace, delimiters
Alphabet == { "a", " ", ";", "[", "(", "<", ">", "=", "!", "~" }

Strings == UNION { [1..n -> Alphabet] : n \in 0..MaxLen }

\* version-constraint, extras and marker suffixes (and none)
Suffixes ==
    { <<>>,
      <<"=", "=", "1">>, <<">", "=", "1">>, <<"<", "=", "1">>,
      <<"<", "1">>, <<">", "1">>, <<"!", "=", "1">>, <<"~", "=", "1">>,
      <<" ", ">", "=", "1">>, <<"[", "x", "]">>, <<";", " ", "m">>, <<" ", "(", ">", "1", ")">> }

\* the calls made: one string, or one name with two suffixes
BaseNameInputs ==
    { <<str>> : str \in Strings } \cup
    { << n \o x, n \o y >> : n \in { <<"a">>, <<"a", "b">> }, x \in Suffixes, y \in Suffixes }

InitBaseName ==
    /\ packages_file = [valid |-> TRUE, len |-> 0, packages |-> Empty]
    /\ installed = [n \in Names |-> None]
    /\ clock = 0
    /\ ops = 0
    /\ index_ok = TRUE
    /\ phase = "idle"
    /\ request \in BaseNameInputs
    /\ queried = {}
    /\ task = Empty
    /\ successful = <<>>
    /\ failed = <<>>
    /\ last = [op |-> "init"]
    /\ pre = packages_file
    /\ pbar = 0
    /\ nlines = 0
    /\ output = <<>>
    /\ process = NoProcess

\* _get_base_name applied to each argument, and to its own result
BaseName ==
    /\ last.op = "init"
    /\ last' = [op |-> "get_base_name", arg |-> request,
                names |-> [i \in DOMAIN request |-> get_base_name(request[i])],
                again |-> [i \in DOMAIN request |-> get_base_name(get_base_name(request[i]))]]
    /\ UNCHANGED <<io, packages_file, installed, clock, ops, index_ok, phase,
                   request, queried, task, successful, failed, pre>>

NextBaseName == BaseName

SpecBaseName == InitBaseName /\ [][NextBaseName]_vars

\* ================================================================ properties
\* install_multiple has returned or raised and nothing has run since
Returned == phase = "idle" /\ last.op = "install_multiple"

\* the manifest as the next reader sees it
manifest == load_packages

\* every item of the finished install_multiple succeeded
AllSucceeded == \A t \in DOMAIN last.task : last.task[t].result

\* the items of the finished install_multiple have pairwise distinct base names
DistinctBaseNames ==
    \A t1, t2 \in DOMAIN last.task : get_base_name(t1) = get_base_name(t2) => t1 = t2

\* C1: when install_multiple ran N installs of N distinct base names and all
\* of them succeeded, the manifest has a record for each of the N base names
\* after it returns, whatever the interleaving of the workers
C1_AllRecorded ==
    (Returned /\ DistinctBaseNames /\ AllSucceeded)
        => \A t \in DOMAIN last.task : get_base_name(t) \in DOMAIN manifest

\* C2: install_multiple dispatches at most one installer invocation per
\* distinct base name
C2_OnePerBaseName ==
    \A t1, t2 \in all_packages :
        (task[t1].cmds # <<>> /\ task[t2].cmds # <<>> /\ get_base_name(t1) = get_base_name(t2))
            => t1 = t2

\* the requested specifiers plus the direct dependencies the index reports
DirectSet(package_specs, ok) ==
    { package_specs[i] : i \in 1..Len(package_specs) } \cup
    UNION { { d \in Names : \E j \in 1..Len(RequiresDist(get_base_name(package_specs[i]))) :
                  LET req == RequiresDist(get_base_name(package_specs[i]))[j]
                  IN  /\ ok
                      /\ ~Contains(req, <<"e", "x", "t", "r", "a", " ", "=", "=">>)
                      /\ get_base_name(req) = d }
            : i \in 1..Len(package_specs) }

\* C3, first part: the dispatched set is the request plus its direct
\* dependencies, and only the requested base names are looked up in the index
C3_DirectOnly ==
    phase = "pool" =>
        /\ all_packages = DirectSet(request, index_ok)
        /\ queried = { get_base_name(request[i]) : i \in 1..Len(request) }

\* C3: the dispatched set is the request plus its direct dependencies only,
\* and a request for one package with one direct dependency gives two
\* installer invocations and, when both succeed, two manifest entries
C3_RequestPlusDirectDeps ==
    /\ C3_DirectOnly
    /\ (/\ Returned
        /\ Len(last.request) = 1
        /\ Cardinality(DirectSet(last.request, index_ok)) = 2
        /\ AllSucceeded)
           => /\ Cardinality({ t \in DOMAIN last.task : last.task[t].cmds # <<>> }) = 2
              /\ Cardinality(DOMAIN manifest) = 2

\* C4: install_multiple returns or raises only when every task of the
\* install set has completed, and by then the installer has been started
\* for every item exactly once as a first attempt, whichever items failed
C4_JoinNoCancel ==
    [][(phase = "pool" /\ phase' = "idle") =>
          /\ \A t \in all_packages :
                /\ task[t].pc = "collected"
                /\ Len(task[t].cmds) >= 1
                /\ task[t].cmds[1].flags = <<>>
                /\ Len(task[t].exits) = Len(task[t].cmds)
          /\ Len(successful) + Len(failed) = Cardinality(all_packages)]_vars

C4_Witness ==
    /\ Returned
    /\ last.raised
    /\ Cardinality(DOMAIN last.task) = 3
    /\ \E t \in DOMAIN last.task : last.task[t].result

\* C5: install_multiple raises exactly when some item failed, and the error
\* lists every failed specifier with that specifier's own failure reason
C5_RaisesWithReasons ==
    Returned =>
        /\ last.raised <=> (\E t \in DOMAIN last.task : ~last.task[t].result)
        /\ \A t \in DOMAIN last.task :
              ~last.task[t].result =>
                  \E i \in 1..Len(last.message) :
                      /\ last.message[i].spec = t
                      /\ last.message[i].reason = last.task[t].reason

\* C5 without the reasons: install_multiple raises exactly when some item
\* failed, and the error lists every failed specifier
C5_RaisesWithSpecs ==
    Returned =>
        /\ last.raised <=> (\E t \in DOMAIN last.task : ~last.task[t].result)
        /\ { last.message[i].spec : i \in 1..Len(last.message) }
             = { t \in DOMAIN last.task : ~last.task[t].result }

\* C6: when install_multiple raises because some items failed, the manifest
\* holds a record for every item that succeeded
C6_PartialSuccessDurable ==
    (Returned /\ last.raised) =>
        \A t \in DOMAIN last.task :
            last.task[t].result => get_base_name(t) \in DOMAIN manifest

\* the install_package calls that have returned, with their specifier
FinishedTasks ==
    IF phase = "pool"
      THEN { task[t] : t \in { u \in all_packages : task[u].pc \in {"done", "collected"} } }
    ELSE IF last.op = "install_multiple" THEN { last.task[t] : t \in DOMAIN last.task }
    ELSE {}

\* the commands an operation ran follow the retry policy: one retry, with
\* the override flag appended, exactly when the first run failed with the marker
RetryPolicy(cmds, exits, stderr) ==
    /\ Len(exits) = Len(cmds)
    /\ (exits[1] # 0 /\ stderr = MARKER) =>
          /\ Len(cmds) = 2
          /\ cmds[2] = [cmds[1] EXCEPT !.flags = Append(cmds[1].flags, OVERRIDE)]
    /\ (exits[1] # 0 /\ stderr # MARKER) => Len(cmds) = 1
    /\ exits[1] = 0 => Len(cmds) = 1

\* C7 as stated: install, update and uninstall retry exactly once with the
\* override flag when the first run failed with the marker; the operation
\* then succeeds if the retry exits zero and fails if it does not; a failure
\* without the marker is not retried and fails; a zero exit is not retried
C7_RetryDecidesOutcome ==
    /\ \A r \in FinishedTasks :
          /\ RetryPolicy(r.cmds, r.exits, r.stderr)
          /\ Len(r.exits) = 2 => (r.result <=> r.exits[2] = 0)
          /\ (r.exits[1] # 0 /\ r.stderr # MARKER) => ~r.result
    /\ (phase = "idle" /\ last.op \in {"update", "uninstall"}) =>
          /\ RetryPolicy(last.cmds, last.exits, last.stderr)
          /\ Len(last.exits) = 2 => (~last.raised <=> last.exits[2] = 0)
          /\ (last.exits[1] # 0 /\ last.stderr # MARKER) => last.raised

\* C7, amended: as C7, but after a retry that exits zero an install or
\* update succeeds only if an installed version is then found (an uninstall
\* succeeds whenever the retry exits zero)
C7_RetryThenVersion ==
    /\ \A r \in FinishedTasks :
          /\ RetryPolicy(r.cmds, r.exits, r.stderr)
          /\ Len(r.exits) = 2 => (r.result <=> (r.exits[2] = 0 /\ r.version # None))
          /\ (r.exits[1] # 0 /\ r.stderr # MARKER) => ~r.result
    /\ (phase = "idle" /\ last.op = "update") =>
          /\ RetryPolicy(last.cmds, last.exits, last.stderr)
          /\ Len(last.exits) = 2 => (~last.raised <=> (last.exits[2] = 0 /\ last.version # None))
          /\ (last.exits[1] # 0 /\ last.stderr # MARKER) => last.raised
    /\ (phase = "idle" /\ last.op = "uninstall") =>
          /\ RetryPolicy(last.cmds, last.exits, last.stderr)
          /\ Len(last.exits) = 2 => (~last.raised <=> last.exits[2] = 0)
          /\ (last.exits[1] # 0 /\ last.stderr # MARKER) => last.raised

C7_Witness ==
    /\ Returned
    /\ \E t \in DOMAIN last.task :
          /\ last.task[t].exits = <<1, 0>>
          /\ last.task[t].stderr = MARKER
          /\ last.task[t].result

\* the installer's last run of this operation exited zero
InstallerSucceeded(exits) == exits[Len(exits)] = 0

\* C8: an item whose installer succeeded but whose installed version cannot
\* be determined is reported as failed and never writes the manifest; an
\* update in that situation raises and leaves the manifest file as it was
C8_NoVersionNoRecord ==
    /\ [](/\ \A r \in FinishedTasks :
                (InstallerSucceeded(r.exits) /\ r.version = None) => ~r.result
          /\ Returned =>
                \A t \in DOMAIN last.task :
                    (InstallerSucceeded(last.task[t].exits) /\ last.task[t].version = None)
                        => (last.raised /\ \E i \in 1..Len(last.message) : last.message[i].spec = t)
          /\ (phase = "idle" /\ last.op = "update"
                /\ InstallerSucceeded(last.exits) /\ last.version = None)
                => (last.raised /\ packages_file = pre))
    /\ [][(phase = "pool" /\ packages_file' # packages_file) =>
             \E t \in all_packages :
                 /\ task[t].pc \in {"open", "write"}
                 /\ task'[t].pc # task[t].pc
                 /\ task[t].version # None]_vars

C8_Witness ==
    /\ Returned
    /\ \E t \in DOMAIN last.task :
          /\ InstallerSucceeded(last.task[t].exits)
          /\ last.task[t].version = None
          /\ installed[get_base_name(t)] # None
          /\ get_base_name(t) \notin DOMAIN manifest
    /\ manifest # Empty

\* C9: after an uninstall whose removal command succeeded the manifest has
\* no entry for the base name and every other entry is as before; when there
\* was no such entry nothing is raised and the file is unchanged
C9_UninstallRemovesOnlyBaseName ==
    (phase = "idle" /\ last.op = "uninstall" /\ InstallerSucceeded(last.exits)) =>
        LET before == IF pre.valid THEN pre.packages ELSE Empty
            base_name == get_base_name(last.arg)
        IN  /\ ~last.raised
            /\ base_name \notin DOMAIN manifest
            /\ DOMAIN manifest = (DOMAIN before) \ {base_name}
            /\ \A n \in DOMAIN manifest : manifest[n] = before[n]
            /\ base_name \notin DOMAIN before => packages_file = pre

C9_Witness ==
    /\ phase = "idle" /\ last.op = "uninstall" /\ InstallerSucceeded(last.exits)
    /\ pre.valid
    /\ get_base_name(last.arg) \in DOMAIN pre.packages
    /\ last.arg # get_base_name(last.arg)
    /\ DOMAIN manifest # {}

\* C10: an uninstall whose subprocess exits nonzero without the marker
\* raises and leaves the manifest file exactly as it was
C10_UninstallFailureKeepsManifest ==
    (phase = "idle" /\ last.op = "uninstall"
       /\ last.exits[1] # 0 /\ last.stderr # MARKER) =>
        /\ last.raised
        /\ packages_file = pre

C10_Witness ==
    /\ phase = "idle" /\ last.op = "uninstall"
    /\ last.exits[1] # 0 /\ last.stderr # MARKER
    /\ packages_file.valid
    /\ get_base_name(last.arg) \in DOMAIN packages_file.packages

\* the manifest when the last operation began
manifest_before == IF pre.valid THEN pre.packages ELSE Empty

\* the timestamps stored in a manifest
Dates(m) ==
    { m[n].install_date : n \in { k \in DOMAIN m : "install_date" \in DOMAIN m[k] } } \cup
    { m[n].update_date : n \in { k \in DOMAIN m : "update_date" \in DOMAIN m[k] } }

\* update_package ran on a package whose installed version it found to be
\* the same before and after the upgrade command
NoOpUpdate ==
    /\ phase = "idle" /\ last.op = "update"
    /\ InstallerSucceeded(last.exits)
    /\ last.current # None
    /\ last.current = last.version

C12_UpdateKeepsInstallDate ==
    (phase = "idle" /\ last.op = "update" /\ ~last.raised) =>
        LET base_name == get_base_name(last.arg)
        IN  /\ base_name \in DOMAIN manifest_before
            /\ "install_date" \in DOMAIN manifest_before[base_name] =>
                  /\ "install_date" \in DOMAIN manifest[base_name]
                  /\ manifest[base_name].install_date = manifest_before[base_name].install_date

\* C13: every key of the manifest is a base name: extracting the base name
\* of a key gives the key back, so no two entries describe one base name
C13_KeysAreBaseNames ==
    /\ \A k \in DOMAIN manifest : get_base_name(k) = k
    /\ \A k1, k2 \in DOMAIN manifest : get_base_name(k1) = get_base_name(k2) => k1 = k2

C13_Witness ==
    /\ phase = "idle" /\ last.op = "update" /\ ~last.raised
    /\ last.arg # get_base_name(last.arg)
    /\ Cardinality(DOMAIN manifest) = 2
    /\ \E k \in DOMAIN manifest : "install_date" \in DOMAIN manifest[k]

\* C14: two specifiers that are the same name followed by different
\* version-constraint, extras or marker suffixes (==, >=, <=, <, >, != and ~=
\* included) have the same base name
C14_SuffixIndependent ==
    (last.op = "get_base_name" /\ Len(last.arg) = 2) => last.names[1] = last.names[2]

\* C14 without != and ~=: the suffixes that start with one of ; [ ( < > =
\* or whitespace do not change the base name
C14_SplitSuffixIndependent ==
    (last.op = "get_base_name" /\ Len(last.arg) = 2
       /\ \A i \in 1..2 : ~Contains(last.arg[i], <<"!">>) /\ ~Contains(last.arg[i], <<"~">>))
        => last.names[1] = last.names[2]

\* C15: extracting the base name of a base name changes nothing
C15_Idempotent ==
    last.op = "get_base_name" =>
        \A i \in DOMAIN last.arg : last.again[i] = last.names[i]

C15_Witness ==
    /\ last.op = "get_base_name"
    /\ Len(last.arg) = 1
    /\ Len(last.arg[1]) = 3
    /\ last.names[1] # last.arg[1]
    /\ last.names[1] # <<>>
    /\ Contains(last.arg[1], <<" ">>)

\* a list_packages call has finished and nothing has run since
Listed == phase = "idle" /\ last.op = "list"

\* C16: an entry with an installed version is shown as current exactly when
\* that version is >= the latest version of the index, and as outdated only
\* when it is < the latest; an entry whose latest version is unknown is not
\* shown as outdated
C16_StatusByComparison ==
    (Listed /\ ~last.raised) =>
        \A name \in DOMAIN last.report :
            LET r == last.report[name]
            IN  r.current # None =>
                  /\ r.status = "up to date" <=>
                        (r.latest # None /\ version_key(r.current) >= version_key(r.latest))
                  /\ r.status = "update available" =>
                        (r.latest # None /\ version_key(r.current) < version_key(r.latest))

\* C16 for the "Latest:" line instead of the icon: an entry is shown with a
\* newer latest version only when its version is < the latest of the index
C16_LatestLineByComparison ==
    (Listed /\ ~last.raised) =>
        \A name \in DOMAIN last.report :
            LET r == last.report[name]
            IN  /\ r.latest_line <=>
                     (r.current # None /\ r.latest # None
                        /\ version_key(r.current) < version_key(r.latest))
                /\ (r.current # None /\ r.status = "up to date") <=>
                     (r.current # None /\ r.latest # None
                        /\ version_key(r.current) >= version_key(r.latest))

\* C17: list_packages does not raise on a manifest built by install, update
\* and uninstall, reports every entry exactly once, and reports an entry
\* without an installed version as missing
C17_ListNeverRaises ==
    Listed =>
        /\ ~last.raised
        /\ DOMAIN last.report = DOMAIN manifest
        /\ \A name \in DOMAIN last.report :
              last.report[name].current = None <=> last.report[name].status = "not installed"

\* C17 for manifests whose records all carry an install_date
C17_ListOfInstalledRecords ==
    (Listed /\ \A name \in DOMAIN manifest : "install_date" \in DOMAIN manifest[name]) =>
        /\ ~last.raised
        /\ DOMAIN last.report = DOMAIN manifest
        /\ \A name \in DOMAIN last.report :
              last.report[name].current = None <=> last.report[name].status = "not installed"

\* C18: a failing index never aborts an install or update: without the
\* dependency lookup install_multiple runs the requested specifiers alone,
\* and without the digest lookup an install or update whose installer
\* succeeded and whose version was found still succeeds and persists its
\* record with the digest None
C18_IndexFailureNotFatal ==
    /\ (phase = "pool" /\ ~index_ok) =>
          /\ all_packages = { request[i] : i \in 1..Len(request) }
          /\ \A t \in all_packages :
                task[t].pc \in {"open", "write"} =>
                    /\ task[t].data[get_base_name(t)].security_hash = None
                    /\ task[t].data[get_base_name(t)].version = task[t].version
    /\ ~index_ok =>
          \A r \in FinishedTasks :
              r.result <=> (InstallerSucceeded(r.exits) /\ r.version # None)
    /\ (Returned /\ ~index_ok) =>
          /\ DOMAIN last.task = { last.request[i] : i \in 1..Len(last.request) }
          /\ \A t \in DOMAIN last.task :
                (last.task[t].result /\ Cardinality(DOMAIN last.task) = 1) =>
                    /\ get_base_name(t) \in DOMAIN manifest
                    /\ manifest[get_base_name(t)].security_hash = None
    /\ (phase = "idle" /\ last.op = "update" /\ ~index_ok
          /\ InstallerSucceeded(last.exits) /\ last.version # None) =>
          /\ ~last.raised
          /\ manifest[get_base_name(last.arg)].security_hash = None
          /\ manifest[get_base_name(last.arg)].version = last.version

C18_Witness ==
    /\ Returned /\ ~index_ok
    /\ RequiresDist(get_base_name(last.request[1])) # <<>>
    /\ \E t \in DOMAIN last.task :
          /\ last.task[t].result
          /\ get_base_name(t) \in DOMAIN manifest
          /\ manifest[get_base_name(t)].security_hash = None

\* install_package calls whose installer process has been started and has
\* not returned yet
Running ==
    { t \in all_packages : task[t].cmds # <<>> /\ task[t].pc \notin {"done", "collected"} }

\* C20: during one install_multiple call at most 4 install_package tasks are
\* running at the same time, whatever the size of the install set, and every
\* queued item is eventually started
C20_PoolBounded ==
    /\ [](Cardinality(Running) <= max_workers)
    /\ \A t \in WorkersItems :
          (phase = "pool" /\ t \in all_packages /\ task[t].pc = "queued")
              ~> (phase = "pool" /\ t \in all_packages /\ task[t].cmds # <<>>)

C20_Witness ==
    /\ phase = "pool"
    /\ Cardinality(all_packages) > max_workers
    /\ Cardinality(Running) = max_workers
    /\ \E t \in all_packages : task[t].pc = "queued"

\* every record in the manifest carries the version pip reports now
RecordsMatchInstalled ==
    \A n \in DOMAIN manifest : manifest[n].version = installed[n]

\* C21: once install_multiple has returned or raised, every manifest record
\* written during the call carries the version currently installed for its
\* base name, also when several specifiers of one base name were installed
\* concurrently (the manifest was empty before the call, so every record in
\* it was written during the call)
C21_RecordIsInstalledVersion == Returned => RecordsMatchInstalled

\* C21 for install sets with pairwise distinct base names
C21_DistinctRecordIsInstalled == (Returned /\ DistinctBaseNames) => RecordsMatchInstalled

\* the adapter waits in readline on an empty stdout while the installer is
\* blocked writing to a full stderr pipe
PipeDeadlock ==
    /\ process.pc = "readline"
    /\ process.stdout = 0
    /\ process.state = "running"
    /\ process.pending = "stderr"
    /\ process.stderr = PipeCapacity

\* C22: install_package / update_package returns for every installer that
\* would exit if its output were always consumed: the adapter never waits on
\* stdout while the installer is blocked on a full stderr pipe
C22_AdapterReturns ==
    /\ [](~PipeDeadlock)
    /\ (process.state = "running") ~> (process.pc = "returned")

\* C22 short of the full stderr pipe: the adapter returns unless it has
\* reached that wait
C22_ReturnsUnlessStderrFull ==
    (process.state = "running") ~> (process.pc = "returned" \/ PipeDeadlock)

\* C19: the progress of one install or update stays within 0..100 whatever
\* lines the installer writes, and a line without a marker adds nothing
C19_ProgressBounded ==
    /\ [](pbar \in 0..100)
    /\ [][(\A m \in {"Collecting", "Downloading", "Installing", "Successfully"} : ~has(output', m))
             => pbar' = pbar]_vars

\* C19 without the upper bound: the progress never decreases, and a line
\* without a marker adds nothing
C19_ProgressMonotone ==
    [][/\ pbar' >= pbar
       /\ (\A m \in {"Collecting", "Downloading", "Installing", "Successfully"} : ~has(output', m))
             => pbar' = pbar]_vars
====
